---------------------------- MODULE Spec2Model ----------------------------
(***************************************************************************)
(* A model of taskw_gcal_sync: the TaskWarrior <-> Google Calendar         *)
(* aggregator (TWGCalAggregator), its item conversions, the TaskWarrior    *)
(* side adapter and the tw_gcal_sync command line driver.                  *)
(*                                                                         *)
(* Python values are modelled as follows.                                  *)
(*   str       a sequence of tokens (words, punctuation, " " and "\n");    *)
(*             the string operations used by the code (split, strip,       *)
(*             lower, startswith, format) are operators on such sequences  *)
(*   UUID      [type |-> "UUID", int |-> i]                                *)
(*   None      [type |-> "NoneType", int |-> 0]                            *)
(*   datetime  [type |-> "datetime", t |-> n]  (n counts days)             *)
(*   dict      a function whose domain is the set of keys present         *)
(*   call      [raised |-> <exception name or "">, value |-> <result>]     *)
(***************************************************************************)
EXTENDS Integers, Sequences, FiniteSets, TLC

(***************************************************************************)
(* Bounds of the model.                                                    *)
(***************************************************************************)
\* the identifiers each store hands out, by number
Ids == {1, 2}
\* longest item list passed to register_items / returned by a listing
MaxItems == 3
\* most -t/--taskwarrior-tag options on the command line
MaxTags == 2
\* most lines after the header in a calendar description
MaxLines == 3

(***************************************************************************)
(* Python values.                                                          *)
(***************************************************************************)
None == [type |-> "NoneType", int |-> 0]

UUID(i) == [type |-> "UUID", int |-> i]

datetime(n) == [type |-> "datetime", t |-> n]

Ok(v) == [raised |-> "", value |-> v]

Raise(e) == [raised |-> e, value |-> None]

\* dict with one more key (d[k] = v)
SetKey(d, k, v) == [x \in DOMAIN d \cup {k} |-> IF x = k THEN v ELSE d[x]]

EmptyDict == [x \in {} |-> None]

(***************************************************************************)
(* str operations.                                                         *)
(***************************************************************************)
\* str.lower() on one token: the mixed-case words of the vocabulary
LowerTok(tok) ==
    CASE tok = "Annotation" -> "annotation"
      [] tok = "ANNOTATION" -> "annotation"
      [] tok = "Status"     -> "status"
      [] tok = "UUID"       -> "uuid"
      [] tok = "PENDING"    -> "pending"
      [] tok = "Completed"  -> "completed"
      [] tok = "Bogus"      -> "bogus"
      [] tok = "U1"         -> "u1"
      [] tok = "IMPORTED FROM TASKWARRIOR" -> "imported from taskwarrior"
      [] OTHER              -> tok

Lower(s) == [k \in 1..Len(s) |-> LowerTok(s[k])]

\* word is a prefix, character by character, of tok
HasCharPrefix(tok, word) ==
    \/ tok = word
    \/ <<word, tok>> \in {<<"annotation", "annotations">>,
                          <<"status", "statuses">>,
                          <<"uuid", "uuids">>}

\* s.startswith(p), p a literal ending in a word
StartsWith(s, p) ==
    /\ Len(s) >= Len(p)
    /\ \A k \in 1..(Len(p) - 1) : s[k] = p[k]
    /\ HasCharPrefix(s[Len(p)], p[Len(p)])

IsSpace(tok) == tok \in {" ", "\t"}

RECURSIVE LStrip(_)
LStrip(s) == IF s # <<>> /\ IsSpace(Head(s)) THEN LStrip(Tail(s)) ELSE s

RECURSIVE RStrip(_)
RStrip(s) ==
    IF s # <<>> /\ IsSpace(s[Len(s)]) THEN RStrip(SubSeq(s, 1, Len(s) - 1)) ELSE s

\* s.strip()
Strip(s) == RStrip(LStrip(s))

\* s.split(sep): the pieces between the occurrences of sep, empty ones kept
RECURSIVE Split(_, _)
Split(s, sep) ==
    IF \E k \in 1..Len(s) : s[k] = sep
    THEN LET k == CHOOSE j \in 1..Len(s) :
                      s[j] = sep /\ \A h \in 1..(j - 1) : s[h] # sep
         IN <<SubSeq(s, 1, k - 1)>> \o Split(SubSeq(s, k + 1, Len(s)), sep)
    ELSE <<s>>

\* s.split(sep, maxsplit=1)
Split1(s, sep) ==
    IF \E k \in 1..Len(s) : s[k] = sep
    THEN LET k == CHOOSE j \in 1..Len(s) :
                      s[j] = sep /\ \A h \in 1..(j - 1) : s[h] # sep
         IN <<SubSeq(s, 1, k - 1), SubSeq(s, k + 1, Len(s))>>
    ELSE <<s>>

\* the canonical text of a UUID: str(uuid)
UuidStr(u) == <<"u" \o ToString(u.int)>>

\* UUID(s): the texts the constructor accepts (canonical, upper case, braced)
ParseUUID(s) ==
    IF Len(s) # 1 THEN Raise("ValueError")
    ELSE CASE s[1] \in {"u1", "U1", "{u1}"} -> Ok(UUID(1))
           [] s[1] \in {"u2", "U2"}         -> Ok(UUID(2))
           [] s[1] = "u3"                   -> Ok(UUID(3))
           [] OTHER                         -> Raise("ValueError")

(***************************************************************************)
(* GCalSide.format_datetime / GCalSide.parse_datetime: the calendar side's *)
(* text form of an instant and its inverse.                                *)
(***************************************************************************)
format_datetime(dt) == [type |-> "rfc3339", t |-> dt.t]

parse_datetime(s) == datetime(s.t)

\* dt + timedelta(days=n) with the days left out
timedelta_days_none(dt, n) == dt

timedelta_days(dt, n) == datetime(dt.t + n)

(***************************************************************************)
(* TWGCalAggregator._parse_gcal_item_desc                                  *)
(***************************************************************************)
\* lines = [l.strip() for l in gcal_desc.split('\n') if l][1:]
DescLines(gcal_desc) ==
    LET raw  == Split(gcal_desc, "\n")
        kept == SelectSeq(raw, LAMBDA l : l # <<>>)
        strp == [k \in 1..Len(kept) |-> Strip(kept[k])]
    IN IF strp = <<>> THEN <<>> ELSE Tail(strp)

\* IsAnnotationLine without the lower(): "* annotation" in lower case only
IsAnnotationLine_cs(l) ==
    /\ Len(Split1(l, ":")) = 2
    /\ StartsWith(Split1(l, ":")[1], <<"*", " ", "annotation">>)

\* the test of the first loop: the line is an annotation line
IsAnnotationLine(l) ==
    LET parts == Split1(l, ":")
    IN Len(parts) = 2 /\ StartsWith(Lower(parts[1]), <<"*", " ", "annotation">>)

\* the number of lines the first loop appends before it breaks
RECURSIVE AnnotationRun(_)
AnnotationRun(lines) ==
    IF lines # <<>> /\ IsAnnotationLine(Head(lines))
    THEN 1 + AnnotationRun(Tail(lines))
    ELSE 0

\* the value of the loop variable i when the first loop is left (0-based)
LoopIndex(lines) ==
    LET n == AnnotationRun(lines)
    IN IF n = Len(lines) THEN (IF n = 0 THEN 0 ELSE n - 1) ELSE n

\* one iteration of the second loop, on the pair [status, uuid]
ScanLine(acc, l) ==
    LET parts == Split1(l, ":")
    IN IF Len(parts) # 2 THEN acc
       ELSE LET start == Lower(parts[1])
            IN IF StartsWith(start, <<"*", " ", "status">>)
               THEN [acc EXCEPT !.status = Lower(Strip(parts[2]))]
               ELSE IF StartsWith(start, <<"*", " ", "uuid">>)
               THEN LET u == ParseUUID(Strip(parts[2]))
                    IN IF u.raised = "" THEN [acc EXCEPT !.uuid = u.value]
                       ELSE acc
               ELSE acc

RECURSIVE ScanLines(_, _)
ScanLines(acc, lines) ==
    IF lines = <<>> THEN acc
    ELSE ScanLines(ScanLine(acc, Head(lines)), Tail(lines))

\* lines 240-267, on the lines of the description
parse_lines(lines, n, i) ==
    LET found == [annotations |-> [k \in 1..n |-> Strip(Split1(lines[k], ":")[2])],
                  status      |-> <<"pending">>,
                  uuid        |-> None]
    IN IF i = Len(lines) - 1 THEN found
       ELSE ScanLines(found, SubSeq(lines, i + 1, Len(lines)))

parse_desc(lines) == parse_lines(lines, AnnotationRun(lines), LoopIndex(lines))

\* _parse_gcal_item_desc returning right after the annotations loop, always
_parse_gcal_item_desc_no_scan(gcal_item) ==
    IF "description" \notin DOMAIN gcal_item
    THEN [annotations |-> <<>>, status |-> <<"pending">>, uuid |-> None]
    ELSE parse_lines(DescLines(gcal_item["description"]),
                     AnnotationRun(DescLines(gcal_item["description"])),
                     Len(DescLines(gcal_item["description"])) - 1)

_parse_gcal_item_desc(gcal_item) ==
    IF "description" \notin DOMAIN gcal_item
    THEN [annotations |-> <<>>, status |-> <<"pending">>, uuid |-> None]
    ELSE parse_desc(DescLines(gcal_item["description"]))

(***************************************************************************)
(* TWGCalAggregator.convert_gcal_to_tw                                     *)
(***************************************************************************)
ValidStatuses ==
    {<<"pending">>, <<"completed">>, <<"deleted">>, <<"waiting">>, <<"recurring">>}

\* lines 191-221, p being what _parse_gcal_item_desc returned
tw_item_of(gcal_item, p) ==
    LET t1 == SetKey(EmptyDict, "annotations", p.annotations)
        t2 == IF p.status \notin ValidStatuses THEN t1
              ELSE SetKey(t1, "status", p.status)
        t3 == IF p.uuid # None THEN SetKey(t2, "uuid", p.uuid) ELSE t2
    IN IF "summary" \notin DOMAIN gcal_item THEN Raise("KeyError")
       ELSE IF "start" \notin DOMAIN gcal_item
               \/ "dateTime" \notin DOMAIN gcal_item["start"] THEN Raise("KeyError")
       ELSE IF "end" \notin DOMAIN gcal_item
               \/ "dateTime" \notin DOMAIN gcal_item["end"] THEN Raise("KeyError")
       ELSE Ok(SetKey(SetKey(SetKey(t3,
                   "description", gcal_item["summary"]),
                   "entry", parse_datetime(gcal_item["start"]["dateTime"])),
                   "due", parse_datetime(gcal_item["end"]["dateTime"])))

convert_gcal_to_tw(gcal_item) ==
    tw_item_of(gcal_item, _parse_gcal_item_desc(gcal_item))

(***************************************************************************)
(* TWGCalAggregator.convert_tw_to_gcal                                     *)
(***************************************************************************)
\* '\n* Annotation {}: {}'.format(i+1, a) for every annotation, in order
RECURSIVE AnnotationText(_, _)
AnnotationText(anns, k) ==
    IF k > Len(anns) THEN <<>>
    ELSE <<"\n", "*", " ", "Annotation", " ", ToString(k), ":", " ">> \o anns[k]
         \o AnnotationText(anns, k + 1)

\* '\n* {}: {}'.format(k, tw_item[k]), text being the str() of tw_item[k]
MetaText(k, text) == <<"\n", "*", " ", k, ":", " ">> \o text

convert_tw_to_gcal(tw_item) ==
    IF ~ ({"description", "status", "uuid"} \subseteq DOMAIN tw_item)
    THEN Raise("AssertionError")
    ELSE LET anns == IF "annotations" \in DOMAIN tw_item
                     THEN AnnotationText(tw_item["annotations"], 1) ELSE <<>>
             desc == <<"IMPORTED FROM TASKWARRIOR", "\n">> \o anns \o <<"\n">>
                     \o MetaText("status", tw_item["status"])
                     \o MetaText("uuid", UuidStr(tw_item["uuid"]))
             g1   == SetKey(SetKey(EmptyDict, "summary", tw_item["description"]),
                            "description", desc)
         IN IF "entry" \notin DOMAIN tw_item THEN Raise("KeyError")
            ELSE LET g2 == SetKey(g1, "start",
                               [dateTime |-> format_datetime(tw_item["entry"])])
                 IN Ok(SetKey(g2, "end",
                       [dateTime |-> format_datetime(
                           IF "due" \in DOMAIN tw_item THEN tw_item["due"]
                           ELSE timedelta_days(tw_item["entry"], 1))]))

(***************************************************************************)
(* State.                                                                  *)
(*   tw_gcal_ids  the bidict of TWGCalAggregator: a set of pairs           *)
(*                <<task id text, calendar id text>>                       *)
(*   call         the last operation run on the aggregator (or the last    *)
(*                command line run), with the calls it issued, in order    *)
(*   conv         the last conversion applied to an item                   *)
(***************************************************************************)
VARIABLES tw_gcal_ids, call, conv

vars == <<tw_gcal_ids, call, conv>>

(***************************************************************************)
(* Identifiers and items of the two stores.                                *)
(***************************************************************************)
\* the htmlLink the calendar store assigns to its i-th event
HtmlLink(i) == <<"link" \o ToString(i)>>

TwKeys == {UuidStr(UUID(i)) : i \in Ids}

GcalKeys == {HtmlLink(i) : i \in Ids}

SrcKeys == TwKeys \cup GcalKeys

\* a task as the task store lists it
TwItem(i) ==
    SetKey(SetKey(SetKey(SetKey(EmptyDict,
        "description", <<"task" \o ToString(i)>>),
        "status", <<"pending">>),
        "uuid", UUID(i)),
        "entry", datetime(i))

\* an event as the calendar store lists it: timed (start.dateTime) or
\* all-day (start.date)
GcalItem(i, timed) ==
    LET at == IF timed THEN "dateTime" ELSE "date"
    IN SetKey(SetKey(SetKey(SetKey(SetKey(EmptyDict,
        "htmlLink", HtmlLink(i)),
        "id", <<"id" \o ToString(i)>>),
        "summary", <<"event" \o ToString(i)>>),
        "start", SetKey(EmptyDict, at, format_datetime(datetime(i)))),
        "end", SetKey(EmptyDict, at, format_datetime(datetime(i + 1))))

TwItems == {TwItem(i) : i \in Ids}

\* every event timed, and the first one also as an all-day event
GcalItems == {GcalItem(i, TRUE) : i \in Ids} \cup {GcalItem(1, FALSE)}

SeqsUpTo(S, n) == UNION {[1..k -> S] : k \in 0..n}

(***************************************************************************)
(* bidict, as TWGCalAggregator uses it.                                    *)
(***************************************************************************)
Keys(b) == {p[1] : p \in b}

Values(b) == {p[2] : p \in b}

\* bidict.inverse
Inverse(b) == {<<p[2], p[1]>> : p \in b}

\* b[key] = val without the duplication check of bidict: a plain dict store
dict_setitem(b, key, val) == Ok({p \in b : p[1] # key} \cup {<<key, val>>})

\* b[key] = val: a duplicated value raises and leaves b as it was, a
\* duplicated key is overwritten
bidict_setitem(b, key, val) ==
    IF <<key, val>> \in b THEN Ok(b)
    ELSE IF val \in Values(b) THEN Raise("ValueDuplicationError")
    ELSE Ok({p \in b : p[1] # key} \cup {<<key, val>>})

(***************************************************************************)
(* The side adapters.  resp is what the store answers to the call:         *)
(*   [kind |-> "error"]                  the call fails                     *)
(*   [kind |-> "ok", n |-> i, interrupt] the store creates its i-th item;  *)
(*                                       with interrupt the process is     *)
(*                                       stopped right after the call      *)
(***************************************************************************)
AddResponses ==
    {[kind |-> "error", n |-> 0, interrupt |-> FALSE],
     [kind |-> "ok", n |-> 1, interrupt |-> TRUE]}
    \cup {[kind |-> "ok", n |-> i, interrupt |-> FALSE] : i \in Ids}

\* GCalSide.add_item: the stored event, with the identifier of the store
GCalSide_add_item(item, resp) ==
    IF resp.kind = "error" THEN Raise("AdapterError")
    ELSE Ok(SetKey(SetKey(EmptyDict,
            "htmlLink", HtmlLink(resp.n)),
            "id", <<"id" \o ToString(resp.n)>>))

\* TaskWarriorSide.add_item with the length read from item['description']
TaskWarriorSide_add_item_fixed(item, resp) ==
    IF "description" \notin DOMAIN item THEN Raise("AssertionError")
    ELSE IF resp.kind = "error" THEN Raise("AdapterError")
    ELSE Ok(SetKey(SetKey([k \in DOMAIN item \ {"desscription"} |-> item[k]],
            "uuid", UUID(resp.n)),
            "id", <<"id" \o ToString(resp.n)>>))

\* TaskWarriorSide.add_item
TaskWarriorSide_add_item(item, resp) ==
    IF "description" \notin DOMAIN item THEN Raise("AssertionError")
    ELSE IF "desscription" \notin DOMAIN item THEN Raise("KeyError")
    ELSE IF resp.kind = "error" THEN Raise("AdapterError")
    ELSE Ok(SetKey(SetKey([k \in DOMAIN item \ {"desscription"} |-> item[k]],
            "uuid", UUID(resp.n)),
            "id", <<"id" \o ToString(resp.n)>>))

\* the calls TaskWarriorSide.add_item makes on self.tw (line 58), r being
\* what add_item returned or raised: none when it raised before line 58
task_add_calls(item, r) ==
    IF r.raised \in {"AssertionError", "KeyError"} THEN <<>>
    ELSE <<[op |-> "task_add", description |-> item["description"]]>>

\* side.add_item(item)
add_item(side, item, resp) ==
    IF side = "gcal_side" THEN GCalSide_add_item(item, resp)
    ELSE TaskWarriorSide_add_item(item, resp)

(***************************************************************************)
(* TWGCalAggregator.register_items                                         *)
(***************************************************************************)
\* self.config["{}_id_key".format(item_type)]
id_key(item_type) == IF item_type = "tw" THEN "uuid" ELSE "htmlLink"

Opposite(item_type) == IF item_type = "tw" THEN "gcal" ELSE "tw"

\* side = self.gcal_side if item_type == "tw" else self.gcal_side
side_of(item_type) == IF item_type = "tw" THEN "gcal_side" ELSE "gcal_side"

\* registered_ids = self.tw_gcal_ids if item_type == 'tw' else its inverse
registered_ids(table, item_type) ==
    IF item_type = "tw" THEN table ELSE Inverse(table)

convert_fun(item_type, item) ==
    IF item_type = "tw" THEN convert_tw_to_gcal(item) ELSE convert_gcal_to_tw(item)

\* _id = str(item[type_key])
item_id(item_type, item) ==
    IF item_type = "tw" THEN UuidStr(item["uuid"]) ELSE item["htmlLink"]

AddEvent(side, id, res, val) ==
    [op |-> "add_item", side |-> side, key |-> id, val |-> val, res |-> res]

InsertEvent(item_type, id, res, val) ==
    [op |-> "insert", side |-> item_type, key |-> id, val |-> val, res |-> res]

\* line 116, put being what the bidict answered to the store of the pair
record_pair(id, item_type, table, val, put) ==
    IF put.raised # ""
    THEN [raised |-> put.raised, table |-> table,
          events |-> <<AddEvent(side_of(item_type), id, "ok", val),
                       InsertEvent(item_type, id, put.raised, val)>>]
    ELSE [raised |-> "",
          table  |-> registered_ids(put.value, item_type),
          events |-> <<AddEvent(side_of(item_type), id, "ok", val),
                       InsertEvent(item_type, id, "ok", val)>>]

\* after_add with the pair recorded in one step with the add, so that an
\* interruption cannot fall between the two
after_add_atomic(id, item_type, resp, table, reg) ==
    IF reg.raised # ""
    THEN [raised |-> reg.raised, table |-> table,
          events |-> <<AddEvent(side_of(item_type), id, reg.raised, <<>>)>>]
    ELSE IF id_key(Opposite(item_type)) \notin DOMAIN reg.value
    THEN [raised |-> "KeyError", table |-> table,
          events |-> <<AddEvent(side_of(item_type), id, "ok", <<>>)>>]
    ELSE IF resp.interrupt
    THEN [record_pair(id, item_type, table, reg.value[id_key(Opposite(item_type))],
              bidict_setitem(registered_ids(table, item_type), id,
                             reg.value[id_key(Opposite(item_type))]))
          EXCEPT !.raised = "Interrupted"]
    ELSE record_pair(id, item_type, table, reg.value[id_key(Opposite(item_type))],
             bidict_setitem(registered_ids(table, item_type), id,
                            reg.value[id_key(Opposite(item_type))]))

\* after_add with the entry of the item made before the answer of add_item
\* is known, and left in the table when the call failed
after_add_eager(id, item_type, resp, table, reg) ==
    IF reg.raised # ""
    THEN [raised |-> reg.raised,
          table  |-> table \cup {IF item_type = "tw" THEN <<id, <<"none">>>>
                                                     ELSE <<<<"none">>, id>>},
          events |-> <<AddEvent(side_of(item_type), id, reg.raised, <<>>)>>]
    ELSE IF resp.interrupt
    THEN [raised |-> "Interrupted", table |-> table,
          events |-> <<AddEvent(side_of(item_type), id, "ok", <<>>)>>]
    ELSE IF id_key(Opposite(item_type)) \notin DOMAIN reg.value
    THEN [raised |-> "KeyError", table |-> table,
          events |-> <<AddEvent(side_of(item_type), id, "ok", <<>>)>>]
    ELSE record_pair(id, item_type, table, reg.value[id_key(Opposite(item_type))],
             bidict_setitem(registered_ids(table, item_type), id,
                            reg.value[id_key(Opposite(item_type))]))

\* lines 113-116, reg being what side.add_item returned or raised
after_add(id, item_type, resp, table, reg) ==
    IF reg.raised # ""
    THEN [raised |-> reg.raised, table |-> table,
          events |-> <<AddEvent(side_of(item_type), id, reg.raised, <<>>)>>]
    ELSE IF resp.interrupt
    THEN [raised |-> "Interrupted", table |-> table,
          events |-> <<AddEvent(side_of(item_type), id, "ok", <<>>)>>]
    ELSE IF id_key(Opposite(item_type)) \notin DOMAIN reg.value
    THEN [raised |-> "KeyError", table |-> table,
          events |-> <<AddEvent(side_of(item_type), id, "ok", <<>>)>>]
    ELSE record_pair(id, item_type, table, reg.value[id_key(Opposite(item_type))],
             bidict_setitem(registered_ids(table, item_type), id,
                            reg.value[id_key(Opposite(item_type))]))

\* lines 112-116, cnv being what convert_fun returned or raised
after_convert(id, item_type, resp, table, cnv) ==
    IF cnv.raised # ""
    THEN [raised |-> cnv.raised, table |-> table, events |-> <<>>]
    ELSE after_add(id, item_type, resp, table,
                   add_item(side_of(item_type), cnv.value, resp))

\* lines 106-116 for one unregistered item: convert, add, record
register_one(item, item_type, resp, table) ==
    after_convert(item_id(item_type, item), item_type, resp, table,
                  convert_fun(item_type, item))

\* the loop of register_items over the items left, after the calls `events`:
\* the set of ways it can end, one for every way the store can answer
RECURSIVE register_loop(_, _, _, _)

\* loop_after with a failed registration skipped and the loop carried on
loop_after_isolating(items, item_type, events, one) ==
    register_loop(Tail(items), item_type, one.table, events \o one.events)

\* the loop after one item's registration ended as `one`
loop_after(items, item_type, events, one) ==
    IF one.raised # ""
    THEN {[raised |-> one.raised, table |-> one.table,
           events |-> events \o one.events]}
    ELSE register_loop(Tail(items), item_type, one.table, events \o one.events)

\* register_loop without the test of line 104: every item is registered anew
register_loop_noskip(items, item_type, table, events) ==
    IF items = <<>>
    THEN {[raised |-> "", table |-> table, events |-> events]}
    ELSE UNION {loop_after(items, item_type, events,
                           register_one(Head(items), item_type, resp, table))
                : resp \in AddResponses}

register_loop(items, item_type, table, events) ==
    IF items = <<>>
    THEN {[raised |-> "", table |-> table, events |-> events]}
    ELSE IF item_id(item_type, Head(items)) \in Keys(registered_ids(table, item_type))
    THEN register_loop(Tail(items), item_type, table, events)
    ELSE UNION {loop_after(items, item_type, events,
                           register_one(Head(items), item_type, resp, table))
                : resp \in AddResponses}

Reverse(q) == [k \in 1..Len(q) |-> q[Len(q) + 1 - k]]

\* register_items walking the list from its end
register_items_reversed(items, item_type, table) ==
    register_loop(Reverse(items), item_type, table, <<>>)

register_items(items, item_type, table) ==
    register_loop(items, item_type, table, <<>>)

(***************************************************************************)
(* TWGCalAggregator.synchronise_deleted_items(item_type): for every entry  *)
(* of the table whose item of that side is no longer listed, delete the    *)
(* mirrored item through the adapter of the opposite side, then remove the *)
(* entry.  listed is the set of identifiers the side's listing returns.    *)
(***************************************************************************)
\* the adapter of the side opposite to item_type
opposite_side(item_type) == IF item_type = "tw" THEN "gcal_side" ELSE "tw_side"

\* gone_entries with the listing ignored: every entry counts as gone
gone_entries_all(table, item_type, listed) == table

\* the entries whose item of side item_type is gone from the listing
gone_entries(table, item_type, listed) ==
    {p \in table : (IF item_type = "tw" THEN p[1] ELSE p[2]) \notin listed}

\* the calls made for one such entry: delete the mirror, remove the entry
delete_one(p, item_type) ==
    LET own    == IF item_type = "tw" THEN p[1] ELSE p[2]
        mirror == IF item_type = "tw" THEN p[2] ELSE p[1]
    IN <<[op |-> "delete_item", side |-> opposite_side(item_type),
          key |-> mirror, val |-> <<>>, res |-> "ok"],
         [op |-> "remove", side |-> item_type,
          key |-> own, val |-> mirror, res |-> "ok"]>>

RECURSIVE sync_loop(_, _, _, _)
sync_loop(todo, item_type, table, events) ==
    IF todo = {} THEN [raised |-> "", table |-> table, events |-> events]
    ELSE LET p == CHOOSE q \in todo : TRUE
         IN sync_loop(todo \ {p}, item_type, table \ {p},
                      events \o delete_one(p, item_type))

synchronise_deleted_items(item_type, listed, table) ==
    sync_loop(gone_entries(table, item_type, listed), item_type, table, <<>>)

(***************************************************************************)
(* Construction: TaskWarriorSide.__init__ and TWGCalAggregator.__init__    *)
(***************************************************************************)
\* a Python list of n tags, and a single tag given as a str
TagList(n) == [type |-> "list", len |-> n]

TagStr == [type |-> "str", len |-> 1]

\* self.config = {'tags': ""}; self.config.update(**kargs); the isinstance test
TaskWarriorSide_init(kargs) ==
    LET config == IF "tags" \in DOMAIN kargs THEN kargs ELSE SetKey(kargs, "tags", TagStr)
    IN IF config["tags"].type # "str" THEN Raise("RuntimeError") ELSE Ok(config)

\* self.tw_side = TaskWarriorSide(**tw_config_new), then the calendar side,
\* whose configuration line 50 updates with tw_config
TWGCalAggregator_init(tw_config, gcal_config) ==
    LET tw == TaskWarriorSide_init(tw_config)
    IN IF tw.raised # "" THEN Raise(tw.raised)
       ELSE Ok([tw_side |-> tw.value, gcal_side |-> tw_config])

(***************************************************************************)
(* scripts/tw_gcal_sync.py: main                                           *)
(***************************************************************************)
\* the identifiers a listing holds
listed_ids(item_type, items) ==
    {item_id(item_type, items[k]) : k \in 1..Len(items)}

\* lines 48-65: the pass, on a constructed aggregator, the listings of the
\* two stores being tw_items and gcal_items: the set of ways it can end
main_pass(table, tw_items, gcal_items) ==
    UNION {
      IF r1.raised # ""
      THEN {[raised |-> r1.raised, table |-> r1.table, events |-> r1.events,
             steps |-> <<"register_tw">>]}
      ELSE UNION {
             IF r2.raised # ""
             THEN {[raised |-> r2.raised, table |-> r2.table,
                    events |-> r1.events \o r2.events,
                    steps |-> <<"register_tw", "register_gcal">>]}
             ELSE LET d1 == synchronise_deleted_items("tw",
                                listed_ids("tw", tw_items), r2.table)
                      d2 == synchronise_deleted_items("gcal",
                                listed_ids("gcal", gcal_items), d1.table)
                  IN {[raised |-> "", table |-> d2.table,
                       events |-> r1.events \o r2.events \o d1.events \o d2.events,
                       steps |-> <<"register_tw", "register_gcal",
                                   "deleted_tw", "deleted_gcal">>]}
             : r2 \in register_items(gcal_items, "gcal", r1.table)}
      : r1 \in register_items(tw_items, "tw", table)}

\* lines 39-46: the tag check and the construction of the aggregator
main_setup(n_tags) ==
    IF n_tags # 1 THEN Raise("RuntimeError")
    ELSE TWGCalAggregator_init(SetKey(EmptyDict, "tags", TagList(n_tags)),
                               SetKey(EmptyDict, "calendar_summary", <<"cal">>))

(***************************************************************************)
(* The record of the last operation.                                       *)
(***************************************************************************)
NoCall ==
    [op |-> "none", item_type |-> "", items |-> <<>>, listed |-> {},
     before |-> {}, events |-> <<>>, raised |-> "", retry_of |-> EmptyDict,
     n_tags |-> 0, steps |-> <<>>]

\* the identifier of the item whose add_item call ended the call c
LastKey(c) == c.events[Len(c.events)].key

\* the item whose add was cut off from its insert when c was interrupted
InterruptedItem(c) ==
    IF c.raised # "Interrupted" THEN EmptyDict
    ELSE LET k == CHOOSE j \in 1..Len(c.items) :
                      item_id(c.item_type, c.items[j]) = LastKey(c)
         IN c.items[k]

NoConv == [fn |-> "none", kind |-> "", arg |-> EmptyDict, out |-> Ok(EmptyDict)]

(***************************************************************************)
(* The items the conversions are applied to.                               *)
(***************************************************************************)
\* lines a calendar description may hold after its header
LinePool ==
    {<<"*", " ", "Annotation", " ", "1", ":", " ", "a">>,
     <<"*", " ", "annotation", " ", "2", ":", " ", "b">>,
     <<"*", " ", "status", ":", " ", "Completed">>,
     <<"*", " ", "status", ":", " ", "bogus">>,
     <<"*", " ", "uuid", ":", " ", "u1">>,
     <<"*", " ", "uuid", ":", " ", "zz">>,
     <<"note">>,
     <<" ">>,
     <<>>}

\* the text of the lines, each after a line break
RECURSIVE JoinLines(_)
JoinLines(lines) ==
    IF lines = <<>> THEN <<>> ELSE <<"\n">> \o Head(lines) \o JoinLines(Tail(lines))

Descriptions ==
    {<<"IMPORTED FROM TASKWARRIOR">> \o JoinLines(lines) :
        lines \in SeqsUpTo(LinePool, MaxLines)}

\* timed calendar events: one without a description, one for each description
GcalConvInputs ==
    {GcalItem(1, TRUE)}
    \cup {SetKey(GcalItem(1, TRUE), "description", d) : d \in Descriptions}

\* tasks: as listed, and with annotations and a due date
TwConvInputs ==
    TwItems
    \cup {SetKey(TwItem(i), "annotations", a) :
            i \in Ids, a \in {<<>>, <<<<"a">>>>, <<<<"a">>, <<"b">>>>,
                              <<<<"a", ":", "b">>>>, <<<<" ", "a">>>>}}
    \cup {SetKey(TwItem(i), "due", datetime(i + 3)) : i \in Ids}

\* items handed to TaskWarriorSide.add_item: the tasks convert_gcal_to_tw
\* makes of the listed events, the same with the key 'desscription', and
\* an item without a description
TwAddInputs ==
    {convert_gcal_to_tw(GcalItem(i, TRUE)).value : i \in Ids}
    \cup {SetKey(convert_gcal_to_tw(GcalItem(i, TRUE)).value,
                 "desscription", <<"event" \o ToString(i)>>) : i \in Ids}
    \cup {SetKey(EmptyDict, "status", <<"pending">>)}

(***************************************************************************)
(* TWGCalAggregator.compare_tw_gcal_items                                  *)
(***************************************************************************)
\* set(a) ^ set(b)
SymmetricDifference(a, b) == (a \cup b) \ (a \cap b)

\* compare_of with every shared key reported, equal values included
compare_of_all_common(tw_item, o) ==
    IF o.raised # "" THEN o
    ELSE Ok([diff_keys |-> SymmetricDifference(DOMAIN tw_item, DOMAIN o.value),
             changes   |-> [k \in (DOMAIN tw_item) \cap (DOMAIN o.value)
                              |-> <<tw_item[k], o.value[k]>>]])

\* lines 128-133, o being what convert_gcal_to_tw returned or raised
compare_of(tw_item, o) ==
    IF o.raised # "" THEN o
    ELSE Ok([diff_keys |-> SymmetricDifference(DOMAIN tw_item, DOMAIN o.value),
             changes   |-> [k \in {x \in (DOMAIN tw_item) \cap (DOMAIN o.value) :
                                      tw_item[x] # o.value[x]}
                              |-> <<tw_item[k], o.value[k]>>]])

compare_tw_gcal_items(tw_item, gcal_item) ==
    compare_of(tw_item, convert_gcal_to_tw(gcal_item))

(***************************************************************************)
(* tests/test_tw_gcal_conversions.py: a conversion and the one back.       *)
(***************************************************************************)
\* convert_gcal_to_tw(g), g being what convert_tw_to_gcal returned or raised
tw_n_back_of(g) == IF g.raised # "" THEN g ELSE convert_gcal_to_tw(g.value)

\* convert_gcal_to_tw(convert_tw_to_gcal(tw_item))
tw_n_back(tw_item) == tw_n_back_of(convert_tw_to_gcal(tw_item))

\* convert_tw_to_gcal(t), t being what convert_gcal_to_tw returned or raised
gcal_n_back_of(t) == IF t.raised # "" THEN t ELSE convert_tw_to_gcal(t.value)

\* convert_tw_to_gcal(convert_gcal_to_tw(gcal_item))
gcal_n_back(gcal_item) == gcal_n_back_of(convert_gcal_to_tw(gcal_item))

\* the pairs compared: tasks as listed and as converted back, events as
\* listed and as made of tasks
CompareInputs ==
    {[tw_item |-> t, gcal_item |-> e] :
        t \in TwConvInputs \cup {tw_n_back(x).value : x \in TwConvInputs},
        e \in {GcalItem(1, TRUE), GcalItem(1, FALSE)}
              \cup {convert_tw_to_gcal(x).value : x \in TwConvInputs}}

(***************************************************************************)
(* Actions.                                                                *)
(***************************************************************************)
Init ==
    /\ tw_gcal_ids = {}
    /\ call = NoCall
    /\ conv = NoConv

\* aggregator.register_items(items, item_type)
Register(items, item_type) ==
    \E r \in register_items(items, item_type, tw_gcal_ids) :
       /\ tw_gcal_ids' = r.table
       /\ call' = [NoCall EXCEPT !.op = "register_items",
                                 !.item_type = item_type,
                                 !.items = items,
                                 !.before = tw_gcal_ids,
                                 !.events = r.events,
                                 !.raised = r.raised,
                                 !.retry_of = InterruptedItem(call)]
       /\ UNCHANGED conv

\* aggregator.synchronise_deleted_items(item_type), the side listing `listed`
SyncDeleted(item_type, listed) ==
    LET r == synchronise_deleted_items(item_type, listed, tw_gcal_ids)
    IN /\ tw_gcal_ids' = r.table
       /\ call' = [NoCall EXCEPT !.op = "synchronise_deleted_items",
                                 !.item_type = item_type,
                                 !.listed = listed,
                                 !.before = tw_gcal_ids,
                                 !.events = r.events,
                                 !.raised = r.raised]
       /\ UNCHANGED conv

\* one run of the command line with n_tags -t options
Main(n_tags) ==
    LET s == main_setup(n_tags)
    IN IF s.raised # ""
       THEN /\ call' = [NoCall EXCEPT !.op = "main", !.n_tags = n_tags,
                                      !.before = tw_gcal_ids,
                                      !.raised = s.raised]
            /\ UNCHANGED <<tw_gcal_ids, conv>>
       ELSE \E tw_items \in SeqsUpTo(TwItems, MaxItems) :
            \E gcal_items \in SeqsUpTo(GcalItems, MaxItems) :
            \E r \in main_pass(tw_gcal_ids, tw_items, gcal_items) :
               /\ tw_gcal_ids' = r.table
               /\ call' = [NoCall EXCEPT !.op = "main", !.n_tags = n_tags,
                                         !.before = tw_gcal_ids,
                                         !.events = r.events,
                                         !.raised = r.raised,
                                         !.steps = r.steps]
               /\ UNCHANGED conv

\* convert_gcal_to_tw applied to the calendar item at hand
ConvertGcalToTw ==
    /\ conv.fn = "none"
    /\ conv.kind = "gcal"
    /\ conv' = [conv EXCEPT !.fn = "convert_gcal_to_tw",
                            !.out = convert_gcal_to_tw(conv.arg)]
    /\ UNCHANGED <<tw_gcal_ids, call>>

\* convert_tw_to_gcal applied to the task at hand
ConvertTwToGcal ==
    /\ conv.fn = "none"
    /\ conv.kind = "tw"
    /\ conv' = [conv EXCEPT !.fn = "convert_tw_to_gcal",
                            !.out = convert_tw_to_gcal(conv.arg)]
    /\ UNCHANGED <<tw_gcal_ids, call>>

\* TW -> GCal -> TW on the task at hand
TwNBack ==
    /\ conv.fn = "none"
    /\ conv.kind = "tw"
    /\ conv' = [conv EXCEPT !.fn = "tw_n_back", !.out = tw_n_back(conv.arg)]
    /\ UNCHANGED <<tw_gcal_ids, call>>

\* GCal -> TW -> GCal on the calendar item at hand
GcalNBack ==
    /\ conv.fn = "none"
    /\ conv.kind = "gcal"
    /\ conv' = [conv EXCEPT !.fn = "gcal_n_back", !.out = gcal_n_back(conv.arg)]
    /\ UNCHANGED <<tw_gcal_ids, call>>

\* tw_side.add_item(item), the store answering resp
AddTwItemResult(item, r) ==
    [raised |-> r.raised, value |-> r.value, calls |-> task_add_calls(item, r)]

AddTwItem ==
    /\ conv.fn = "none"
    /\ conv.kind = "tw_add"
    /\ \E resp \in AddResponses :
         conv' = [conv EXCEPT !.fn = "add_item",
                              !.out = AddTwItemResult(conv.arg,
                                          TaskWarriorSide_add_item(conv.arg, resp))]
    /\ UNCHANGED <<tw_gcal_ids, call>>

\* compare_tw_gcal_items on the pair at hand
CompareItems ==
    /\ conv.fn = "none"
    /\ conv.kind = "pair"
    /\ conv' = [conv EXCEPT !.fn = "compare_tw_gcal_items",
                            !.out = compare_tw_gcal_items(conv.arg.tw_item,
                                                          conv.arg.gcal_item)]
    /\ UNCHANGED <<tw_gcal_ids, call>>

ItemsOf(item_type) == IF item_type = "tw" THEN TwItems ELSE GcalItems

KeysOf(item_type) == IF item_type = "tw" THEN TwKeys ELSE GcalKeys

Next ==
    \/ \E item_type \in {"tw", "gcal"} :
         \E items \in SeqsUpTo(ItemsOf(item_type), MaxItems) :
              Register(items, item_type)
    \/ \E item_type \in {"tw", "gcal"} :
         \E listed \in SUBSET KeysOf(item_type) :
              SyncDeleted(item_type, listed)
    \/ \E n_tags \in 0..MaxTags : Main(n_tags)

Spec == Init /\ [][Next]_vars

\* the conversions, each applied to one item of the bounded input sets
InitConv ==
    /\ tw_gcal_ids = {}
    /\ call = NoCall
    /\ conv \in {[NoConv EXCEPT !.kind = "gcal", !.arg = g] : g \in GcalConvInputs}
              \cup {[NoConv EXCEPT !.kind = "tw", !.arg = t] : t \in TwConvInputs}
              \cup {[NoConv EXCEPT !.kind = "tw_add", !.arg = t] : t \in TwAddInputs}
              \cup {[NoConv EXCEPT !.kind = "pair", !.arg = p] : p \in CompareInputs}

NextConv ==
    \/ ConvertGcalToTw \/ ConvertTwToGcal \/ TwNBack \/ GcalNBack
    \/ AddTwItem \/ CompareItems

SpecConv == InitConv /\ [][NextConv]_vars

(***************************************************************************)
(* Vocabulary of the claims: what the record of a call shows.              *)
(***************************************************************************)
\* no identifier of either side occurs in two pairs
Bijective(b) == \A p, q \in b : (p[1] = q[1] \/ p[2] = q[2]) => p = q

\* the pair <<task id, calendar id>> an insert event stores
PairOf(e) == IF e.side = "tw" THEN <<e.key, e.val>> ELSE <<e.val, e.key>>

\* the places of the events of kind op
EventsOf(events, op) == {k \in 1..Len(events) : events[k].op = op}

\* the table as it stood when event k of the call was issued
TableAt(c, k) ==
    c.before \cup {PairOf(c.events[j]) :
                     j \in {h \in EventsOf(c.events, "insert") :
                              h < k /\ c.events[h].res = "ok"}}

\* the identifiers of side item_type that table maps
MappedKeys(table, item_type) ==
    IF item_type = "tw" THEN {p[1] : p \in table} ELSE {p[2] : p \in table}

\* the identifiers of the items of a call, in the order supplied
CallIds(c) == [k \in 1..Len(c.items) |-> item_id(c.item_type, c.items[k])]

\* the source identifiers of the add_item calls of a call, in the order issued
AddKeys(c) ==
    LET adds == SelectSeq(c.events, LAMBDA e : e.op = "add_item")
    IN [k \in 1..Len(adds) |-> adds[k].key]

\* the supplied identifiers restricted to those not registered before the
\* call, each at its first occurrence
RECURSIVE Unregistered(_, _)
Unregistered(ids, seen) ==
    IF ids = <<>> THEN <<>>
    ELSE IF Head(ids) \in seen THEN Unregistered(Tail(ids), seen)
    ELSE <<Head(ids)>> \o Unregistered(Tail(ids), seen \cup {Head(ids)})

IsPrefix(p, q) == Len(p) <= Len(q) /\ \A k \in 1..Len(p) : p[k] = q[k]

\* the place in the supplied list of the item whose add_item call ended the call
FailedPos(c) ==
    LET ids == CallIds(c)
    IN CHOOSE k \in 1..Len(ids) :
          ids[k] = LastKey(c) /\ \A j \in 1..(k - 1) : ids[j] # LastKey(c)

\* every add_item call of the call was answered, with an identifier that
\* was not mapped yet, and the process went on
AddsAnswered(c) ==
    /\ c.raised # "Interrupted"
    /\ \A k \in 1..Len(c.events) : c.events[k].res = "ok"

(***************************************************************************)
(* Claims on the aggregator.                                               *)
(***************************************************************************)
\* C1: after any sequence of register_items calls no task identifier and no
\* calendar identifier occurs in two entries of the table; a store of a pair
\* one of whose identifiers is already mapped fails, is the last thing the
\* call does, and leaves the table as it was; no entry is overwritten.
C1_Bijection ==
    /\ Bijective(tw_gcal_ids)
    /\ call.op = "register_items" =>
         /\ call.before \subseteq tw_gcal_ids
         /\ \A k \in EventsOf(call.events, "insert") :
              LET pr == PairOf(call.events[k])
                  t  == TableAt(call, k)
              IN IF pr[1] \in Keys(t) \/ pr[2] \in Values(t)
                 THEN /\ call.events[k].res # "ok"
                      /\ k = Len(call.events)
                      /\ tw_gcal_ids = t
                 ELSE /\ call.events[k].res = "ok"
                      /\ pr \in tw_gcal_ids

\* a call stored one pair and then failed to store a pair whose calendar
\* identifier was already mapped
C1_Witness ==
    /\ call.op = "register_items"
    /\ Len(call.events) = 4
    /\ call.events[2].op = "insert" /\ call.events[2].res = "ok"
    /\ call.events[4].op = "insert"
    /\ call.events[4].res = "ValueDuplicationError"
    /\ Cardinality(tw_gcal_ids) = 1

\* C2: every add_item call of register_items goes to the adapter of the
\* store opposite to the source side.
C2_AddsGoToOppositeSide ==
    call.op = "register_items" =>
        \A k \in EventsOf(call.events, "add_item") :
            call.events[k].side = opposite_side(call.item_type)

\* C3: after a register_items call whose add_item calls were all answered,
\* the same call made again issues no add_item call and leaves the table
\* as it is.
C3_Idempotent ==
    (call.op = "register_items" /\ AddsAnswered(call)) =>
        \A r \in register_items(call.items, call.item_type, tw_gcal_ids) :
            r.events = <<>> /\ r.table = tw_gcal_ids

C5_CrashWindow ==
    /\ (call.op = "register_items" /\ call.raised = "Interrupted") =>
         /\ LastKey(call) \notin MappedKeys(tw_gcal_ids, call.item_type)
         /\ \A r \in register_items(<<InterruptedItem(call)>>, call.item_type,
                                    tw_gcal_ids) :
              /\ r.events # <<>>
              /\ r.events[1].op = "add_item"
              /\ r.events[1].key = LastKey(call)
    /\ (/\ call.op = "register_items"
        /\ call.retry_of # EmptyDict
        /\ call.items # <<>>
        /\ call.items[1] = call.retry_of) =>
         /\ call.events # <<>>
         /\ call.events[1].op = "add_item"
         /\ call.events[1].key = item_id(call.item_type, call.retry_of)

\* the call after an interrupted one added the same task a second time and
\* recorded it: two mirrored events, one entry
C5_Witness ==
    /\ call.op = "register_items"
    /\ call.item_type = "tw"
    /\ call.retry_of # EmptyDict
    /\ call.items # <<>>
    /\ call.items[1] = call.retry_of
    /\ call.events # <<>>
    /\ call.events[1].op = "add_item"
    /\ call.events[1].res = "ok"
    /\ item_id("tw", call.retry_of) \in Keys(tw_gcal_ids)

\* C6 as stated: when the add_item call of an item fails, the items after
\* it in the list are still processed: each is registered or has its own
\* add_item call.
C6_FailureIsolation ==
    (call.op = "register_items" /\ call.raised = "AdapterError") =>
        \A j \in (FailedPos(call) + 1)..Len(call.items) :
            LET id == CallIds(call)[j]
            IN \/ id \in MappedKeys(tw_gcal_ids, call.item_type)
               \/ \E k \in EventsOf(call.events, "add_item") : call.events[k].key = id

\* C6 as amended: when the add_item call of an item fails, the failure ends
\* the call, which raises it: the failed call is its last event, the item is
\* not recorded, no item after it gets an add_item call or an entry, and the
\* entries recorded for the items before it are kept.
C6_FailureEndsCall ==
    /\ call.op = "register_items" =>
         \A k \in EventsOf(call.events, "add_item") :
             call.events[k].res # "ok" =>
                 /\ k = Len(call.events)
                 /\ call.raised = call.events[k].res
    /\ (call.op = "register_items" /\ call.raised = "AdapterError") =>
        LET n   == Len(call.events)
            pos == FailedPos(call)
            ids == CallIds(call)
        IN /\ call.events[n].op = "add_item"
           /\ \A k \in 1..(n - 1) : call.events[k].res = "ok"
           /\ ids[pos] \notin MappedKeys(tw_gcal_ids, call.item_type)
           /\ \A k \in 1..n : \E j \in 1..pos : call.events[k].key = ids[j]
           /\ tw_gcal_ids = TableAt(call, n)
           /\ \A j \in (pos + 1)..Len(ids) :
                ids[j] \in MappedKeys(tw_gcal_ids, call.item_type) =>
                    \/ ids[j] \in MappedKeys(call.before, call.item_type)
                    \/ \E h \in 1..(pos - 1) : ids[h] = ids[j]

\* the first item was recorded, the add_item of the second failed, and the
\* third, not registered, was left alone
C6_Witness ==
    /\ call.op = "register_items"
    /\ call.raised = "AdapterError"
    /\ Len(call.items) = 3
    /\ Len(call.events) = 3
    /\ FailedPos(call) = 2
    /\ Cardinality(tw_gcal_ids) = Cardinality(call.before) + 1
    /\ CallIds(call)[3] \notin MappedKeys(tw_gcal_ids, call.item_type)

\* C7: a run of the command line with one tag, whose adapter calls are all
\* answered, performs the four steps of the pass, in order.
C7_PassOrder ==
    (call.op = "main" /\ call.n_tags = 1 /\ AddsAnswered(call)) =>
        call.steps = <<"register_tw", "register_gcal", "deleted_tw", "deleted_gcal">>

\* C8: the add_item calls of register_items are, in order, the supplied
\* items that were not registered (all of them when the call returns, the
\* first of them when it is cut short), and the store of an item's pair
\* directly follows its add_item call, before the next add_item call.
C8_RegistrationOrder ==
    call.op = "register_items" =>
        LET expected == Unregistered(CallIds(call),
                                     MappedKeys(call.before, call.item_type))
            n == Len(call.events)
        IN /\ IsPrefix(AddKeys(call), expected)
           /\ call.raised = "" => AddKeys(call) = expected
           /\ \A k \in 1..n :
                /\ (call.events[k].op = "add_item" /\ k < n) =>
                      /\ call.events[k + 1].op = "insert"
                      /\ call.events[k + 1].key = call.events[k].key
                /\ call.events[k].op = "insert" =>
                      /\ k > 1
                      /\ call.events[k - 1].op = "add_item"
                      /\ call.events[k - 1].key = call.events[k].key

\* a call that returned after skipping a registered task and registering two
\* tasks, the second task of the store before the first
C8_Witness ==
    /\ call.op = "register_items"
    /\ call.raised = ""
    /\ Len(call.items) = 3
    /\ AddKeys(call) = <<UuidStr(UUID(2)), UuidStr(UUID(1))>>
    /\ Len(call.events) = 4

\* C9: a run of the command line ends before any step of the pass exactly
\* when the number of tags differs from one.
C9_SingleTag ==
    call.op = "main" =>
        ((call.raised # "" /\ call.steps = <<>> /\ call.events = <<>>)
            <=> call.n_tags # 1)

(***************************************************************************)
(* Claims on the conversions.                                              *)
(***************************************************************************)
\* the description of the item holds a line `* status: <v>`, v not one of
\* the five statuses in any letter case
HasUnknownStatusLine(gcal_item) ==
    /\ "description" \in DOMAIN gcal_item
    /\ \E k \in 1..Len(Split(gcal_item["description"], "\n")) :
         LET l == Split(gcal_item["description"], "\n")[k]
         IN /\ Len(l) = 6
            /\ SubSeq(l, 1, 5) = <<"*", " ", "status", ":", " ">>
            /\ Lower(<<l[6]>>) \notin ValidStatuses

\* C10: a calendar item whose description holds a status line with an
\* unknown value converts, without failing, to a task whose status is
\* "pending".
C10_UnknownStatusPending ==
    (conv.fn = "convert_gcal_to_tw" /\ HasUnknownStatusLine(conv.arg)) =>
        /\ conv.out.raised = ""
        /\ "status" \in DOMAIN conv.out.value
        /\ conv.out.value["status"] = <<"pending">>

\* the line is a `* status: <v>` line, a `* uuid: <v>` line
IsStatusLine(l) ==
    Len(Split1(l, ":")) = 2 /\ StartsWith(Lower(Split1(l, ":")[1]), <<"*", " ", "status">>)

IsUuidLine(l) ==
    /\ Len(Split1(l, ":")) = 2
    /\ ~ IsStatusLine(l)
    /\ StartsWith(Lower(Split1(l, ":")[1]), <<"*", " ", "uuid">>)

\* the text after the first colon of a line, trimmed
ValueOf(l) == Strip(Split1(l, ":")[2])

\* the lines of a description that follow its annotation prefix run
RestLines(gcal_desc) ==
    SubSeq(DescLines(gcal_desc), AnnotationRun(DescLines(gcal_desc)) + 1,
           Len(DescLines(gcal_desc)))

\* the last place in rest of a line for which P holds (0: none)
LastWhere(rest, P(_)) ==
    IF \E k \in 1..Len(rest) : P(rest[k])
    THEN CHOOSE k \in 1..Len(rest) :
            P(rest[k]) /\ \A j \in (k + 1)..Len(rest) : ~ P(rest[j])
    ELSE 0

IsParseableUuidLine(l) == IsUuidLine(l) /\ ParseUUID(ValueOf(l)).raised = ""

\* C11: whatever the number of lines left after the annotation prefix run,
\* each of them is scanned: the conversion does not fail, the last status
\* line, when its value is a recognised status, gives the task its status
\* (lower-cased), the last parseable uuid line gives it its uuid, and with no
\* parseable uuid line the task has no uuid.
C11_MetadataScan ==
    (conv.fn = "convert_gcal_to_tw" /\ "description" \in DOMAIN conv.arg) =>
        LET rest == RestLines(conv.arg["description"])
            s    == LastWhere(rest, IsStatusLine)
            u    == LastWhere(rest, IsParseableUuidLine)
        IN /\ conv.out.raised = ""
           /\ (s # 0 /\ Lower(ValueOf(rest[s])) \in ValidStatuses) =>
                 /\ "status" \in DOMAIN conv.out.value
                 /\ conv.out.value["status"] = Lower(ValueOf(rest[s]))
           /\ u # 0 =>
                 /\ "uuid" \in DOMAIN conv.out.value
                 /\ conv.out.value["uuid"] = ParseUUID(ValueOf(rest[u])).value
           /\ u = 0 => "uuid" \notin DOMAIN conv.out.value

\* a task with description, status, uuid and entry set, its status one of
\* the five
ValidTask(t) ==
    /\ {"description", "status", "uuid", "entry"} \subseteq DOMAIN t
    /\ t["status"] \in ValidStatuses

\* the keys held by exactly one of the dicts a and b
KeyDiff(a, b) == ((DOMAIN a) \ (DOMAIN b)) \cup ((DOMAIN b) \ (DOMAIN a))

RoundTripKeys == {"entry", "due", "id", "tags", "urgency"}

\* C12: a valid task converted to a calendar item and back differs from
\* itself, in its keys, by keys among entry, due, id, tags and urgency only,
\* and has the same value under every key the two share.
C12_TaskRoundTrip ==
    (conv.fn = "tw_n_back" /\ ValidTask(conv.arg)) =>
        /\ conv.out.raised = ""
        /\ KeyDiff(conv.arg, conv.out.value) \subseteq RoundTripKeys
        /\ \A k \in (DOMAIN conv.arg) \cap (DOMAIN conv.out.value) :
              conv.arg[k] = conv.out.value[k]

\* a calendar item with summary, start.dateTime and end.dateTime whose
\* description holds an annotation line, a status line and a uuid line, every
\* status line naming one of the five statuses and every uuid line a UUID
WellFormedEvent(e) ==
    /\ {"summary", "description", "start", "end"} \subseteq DOMAIN e
    /\ "dateTime" \in DOMAIN e["start"]
    /\ "dateTime" \in DOMAIN e["end"]
    /\ LET lines == DescLines(e["description"])
       IN /\ \E k \in 1..Len(lines) : IsAnnotationLine(lines[k])
          /\ \E k \in 1..Len(lines) : IsStatusLine(lines[k])
          /\ \E k \in 1..Len(lines) : IsUuidLine(lines[k])
          /\ \A k \in 1..Len(lines) :
               /\ IsStatusLine(lines[k]) => Lower(ValueOf(lines[k])) \in ValidStatuses
               /\ IsUuidLine(lines[k]) => IsParseableUuidLine(lines[k])

StoreAssignedKeys ==
    {"htmlLink", "kind", "etag", "extendedProperties", "creator", "created",
     "organizer", "sequence", "status", "reminders", "iCalUID", "id"}

EndInstant(t) == IF "due" \in DOMAIN t THEN t["due"].t ELSE t["entry"].t + 1

MatchesAnnotation(l) ==
    /\ Len(l) >= 4
    /\ l[1] = "*" /\ l[2] = " "
    /\ l[3] \in {"Annotation", "annotation", "ANNOTATION"}
    /\ \E c \in 4..Len(l) : l[c] = ":"

\* the text of such a line: what follows its first colon, trimmed
AnnotationOf(l) ==
    LET c == CHOOSE j \in 1..Len(l) : l[j] = ":" /\ \A h \in 1..(j - 1) : l[h] # ":"
    IN Strip(SubSeq(l, c + 1, Len(l)))

\* n lines at the head of lines match, and the line after them, if any, does not
IsPrefixRun(lines, n) ==
    /\ n <= Len(lines)
    /\ \A k \in 1..n : MatchesAnnotation(lines[k])
    /\ n < Len(lines) => ~ MatchesAnnotation(lines[n + 1])

\* C16: the annotations of the task are the texts of the longest run of
\* annotation lines that starts right after the header, in their order; no
\* line after the first line that is not an annotation line adds to them.
C16_AnnotationPrefixRun ==
    (conv.fn = "convert_gcal_to_tw" /\ "description" \in DOMAIN conv.arg) =>
        /\ conv.out.raised = ""
        /\ \A n \in 0..Len(DescLines(conv.arg["description"])) :
              IsPrefixRun(DescLines(conv.arg["description"]), n) =>
                 conv.out.value["annotations"] =
                    [k \in 1..n |-> AnnotationOf(DescLines(conv.arg["description"])[k])]

\* an annotation line, a line of another kind, and an annotation line again:
\* the first one alone is returned
C16_Witness ==
    /\ conv.fn = "convert_gcal_to_tw"
    /\ "description" \in DOMAIN conv.arg
    /\ Len(DescLines(conv.arg["description"])) = 3
    /\ MatchesAnnotation(DescLines(conv.arg["description"])[1])
    /\ ~ MatchesAnnotation(DescLines(conv.arg["description"])[2])
    /\ MatchesAnnotation(DescLines(conv.arg["description"])[3])
    /\ conv.out.value["annotations"] = <<<<"a">>>>

\* the task made of the calendar item of the compared pair
Converted(p) == convert_gcal_to_tw(p.gcal_item)

\* C17: with c the task made of the calendar item, compare_tw_gcal_items
\* returns as D the keys that exactly one of t and c holds and as C the keys
\* both hold with different values, each with the pair (value in t, value in
\* c); D and the keys of C share no key, and both are empty exactly when t = c.
C17_DivergenceReport ==
    (conv.fn = "compare_tw_gcal_items" /\ Converted(conv.arg).raised = "") =>
        LET t == conv.arg.tw_item
            c == Converted(conv.arg).value
            D == conv.out.value.diff_keys
            C == conv.out.value.changes
        IN /\ conv.out.raised = ""
           /\ D \subseteq (DOMAIN t) \cup (DOMAIN c)
           /\ \A k \in (DOMAIN t) \cup (DOMAIN c) :
                 k \in D <=> ~ (k \in DOMAIN t /\ k \in DOMAIN c)
           /\ \A k \in (DOMAIN t) \cap (DOMAIN c) :
                 /\ k \in DOMAIN C <=> t[k] # c[k]
                 /\ k \in DOMAIN C => C[k] = <<t[k], c[k]>>
           /\ DOMAIN C \subseteq (DOMAIN t) \cap (DOMAIN c)
           /\ D \cap DOMAIN C = {}
           /\ (D = {} /\ DOMAIN C = {}) <=> t = c

\* a comparison that reported a key held by one side only and a key whose
\* values differ
C17_Witness ==
    /\ conv.fn = "compare_tw_gcal_items"
    /\ conv.out.raised = ""
    /\ conv.out.value.diff_keys = {"annotations"}
    /\ DOMAIN conv.out.value.changes = {"description", "uuid", "entry", "due"}
    /\ conv.out.value.changes["uuid"] = <<UUID(1), UUID(2)>>

(***************************************************************************)
(* More claims on the aggregator.                                          *)
(***************************************************************************)
\* C18: the item a registration creates on the other store is recorded
\* under the identifier the listing of that store reports, so that a later
\* registration from that side finds it mapped and skips it: after a
\* register_items call whose add_item calls were all answered, each add_item
\* call is followed by the store of its pair, and the identifier stored is
\* mapped on the opposite side.
C18_NoPingPong ==
    (call.op = "register_items" /\ AddsAnswered(call)) =>
        \A k \in EventsOf(call.events, "add_item") :
            \E h \in EventsOf(call.events, "insert") :
                /\ h = k + 1
                /\ call.events[h].res = "ok"
                /\ call.events[h].val \in
                      MappedKeys(tw_gcal_ids, Opposite(call.item_type))

\* the places of the stores of a pair that succeeded
OkInserts(c) == {h \in EventsOf(c.events, "insert") : c.events[h].res = "ok"}

\* C19: every pair register_items put in the table was stored right after
\* an add_item call for the same item that returned, with the identifier the
\* store assigned; when the conversion, the add_item call or the store of the
\* pair fails for an item, the call ends with that item unmapped and the table
\* holding the pairs it held before plus those stored for earlier items.
C19_NoEntryWithoutAdd ==
    call.op = "register_items" =>
        /\ tw_gcal_ids = call.before \cup {PairOf(call.events[h]) : h \in OkInserts(call)}
        /\ \A h \in OkInserts(call) :
              /\ h > 1
              /\ call.events[h - 1].op = "add_item"
              /\ call.events[h - 1].res = "ok"
              /\ call.events[h - 1].key = call.events[h].key
              /\ call.events[h].val # <<>>
        /\ \A k \in EventsOf(call.events, "add_item") :
              call.events[k].res # "ok" =>
                 /\ EventsOf(call.events, "insert") \cap (k + 1)..Len(call.events) = {}
                 /\ call.events[k].key \notin MappedKeys(tw_gcal_ids, call.item_type)
        /\ call.raised # "" =>
              \E j \in 1..Len(call.items) :
                  /\ CallIds(call)[j] \notin MappedKeys(tw_gcal_ids, call.item_type)
                  /\ \A h \in OkInserts(call) :
                        \E g \in 1..(j - 1) : CallIds(call)[g] = call.events[h].key

\* a call that stored the pair of its first item and whose add_item call for
\* the second item failed
C19_Witness ==
    /\ call.op = "register_items"
    /\ call.raised = "AdapterError"
    /\ Cardinality(OkInserts(call)) = 1
    /\ Cardinality(tw_gcal_ids) = Cardinality(call.before) + 1
    /\ call.events[Len(call.events)].res = "AdapterError"

\* C20: register_items keeps every pair the table held before the call,
\* binds no identifier of such a pair anew, makes no call but add_item on
\* the stores, and makes no call at all for an item whose identifier was
\* mapped before the call.
C20_RegistrationOnlyAdds ==
    call.op = "register_items" =>
        /\ \A p \in call.before : p \in tw_gcal_ids
        /\ \A p \in tw_gcal_ids \ call.before :
              /\ p[1] \notin Keys(call.before)
              /\ p[2] \notin Values(call.before)
        /\ \A k \in 1..Len(call.events) :
              /\ call.events[k].op \in {"add_item", "insert"}
              /\ call.events[k].key \notin MappedKeys(call.before, call.item_type)

\* a call given a registered task and a new one: the first caused no call,
\* the second was added and recorded beside the pair of the first
C20_Witness ==
    /\ call.op = "register_items"
    /\ call.raised = ""
    /\ Len(call.items) = 2
    /\ CallIds(call)[1] \in MappedKeys(call.before, call.item_type)
    /\ Len(call.events) = 2
    /\ Cardinality(call.before) = 1
    /\ Cardinality(tw_gcal_ids) = 2

=============================================================================
